---- MODULE Spec2Model ----
(***************************************************************************)
(* Model of rag/benchmark.py: the Benchmark session, its three dataset     *)
(* adapters (ms_marco_index with a worker pool, trivia_qa_index and        *)
(* miracl_index synchronous), the embedder, the query runner and           *)
(* save_results.                                                           *)
(*                                                                         *)
(* Strings that the code concatenates are sequences of tokens; floats are  *)
(* written in tenths (2 stands for 0.2).  A dict is the sequence of its     *)
(* <<key, value>> items in insertion order.                                *)
(***************************************************************************)
EXTENDS Integers, Sequences, FiniteSets, TLC

\* ---------------------------------------------------------------- bounds
MaxLen     == 3      \* SpecEmb: longest document sequence given to embedding
MaxBatch   == 2      \* SpecEmb: largest batch_size given to embedding
MaxRecords == 2      \* records read in one run of __call__
MaxLangs   == 2      \* how many entries of the language list the run visits
MaxBulkFailures == 1 \* bulk loads the backend fails in one run of __call__
MaxStored  == 2      \* SpecKb: documents an index can hold before init_kb

\* ------------------------------------------------------ program constants
FlushThreshold   == 32    \* len(docs) >= 32
EmbedBatchSize   == 16    \* embedding(self, docs, batch_size=16)
RetrievalOffset  == 0     \* retrievaler.retrieval(..., 0, 30, ...)
RetrievalLimit   == 30
RetrievalThresh  == 0     \* the literal 0.0 passed as similarity threshold
DefaultWorkers   == 3     \* os.environ.get('MAX_WORKERS', 3)
ReportTop        == 10    \* scores[:10]

Min(a, b) == IF a < b THEN a ELSE b
Range(s)  == {s[i] : i \in DOMAIN s}

\* ------------------------------------------------------------- dict helpers
\* a Python dict: the sequence of its <<key, value>> items in insertion order
HasKey(d, k)  == \E i \in DOMAIN d : d[i][1] = k
KeyIdx(d, k)  == CHOOSE i \in DOMAIN d : d[i][1] = k
Get(d, k)     == d[KeyIdx(d, k)][2]
Put(d, k, v)  == IF HasKey(d, k) THEN [d EXCEPT ![KeyIdx(d, k)] = <<k, v>>]
                 ELSE Append(d, <<k, v>>)
KeyList(d)    == [i \in DOMAIN d |-> d[i][1]]
Keys(d)       == {d[i][1] : i \in DOMAIN d}
\* defaultdict(dict): dd[k][j] = v creates dd[k] on first use
GetDefault(dd, k) == IF HasKey(dd, k) THEN Get(dd, k) ELSE <<>>
Put2(dd, k, j, v) == Put(dd, k, Put(GetDefault(dd, k), j, v))

\* ------------------------------------------------------------------ names
\* search.index_name(uid)
index_name(uid) == <<"ragflow_">> \o uid
\* dataset_idxnm.replace("ragflow_", "")
StripPrefix(nm) == SelectSeq(nm, LAMBDA t : t # "ragflow_")

\* ------------------------------------------------------------- embedding
Texts == {"a", "b"}
NoText == "?"
Dims == {2, 3}
Deltas == {-1, 0, 1}
\* what one call of the embedding collaborator may do: return one vector per
\* text (delta 0), one vector too few or one too many, all of one dimension
Behaviours == [delta : Deltas, dim : Dims]

Vec(t, dim) == [i \in 1..dim |-> t]

\* self.embd_mdl.encode(texts): the vectors returned (vts.tolist())
encode(texts, beh) ==
    LET good == [i \in 1..Len(texts) |-> Vec(texts[i], beh.dim)]
    IN  CASE beh.delta = 0  -> good
          [] beh.delta = -1 -> SubSeq(good, 1, Len(good) - 1)
          [] beh.delta = 1  -> Append(good, Vec(NoText, beh.dim))

\* the slices cnts[i: i + batch_size] for i in range(0, len(cnts), batch_size)
RECURSIVE SlicesFrom(_, _, _)
SlicesFrom(cnts, batch_size, i) ==
    IF i >= Len(cnts) THEN <<>>
    ELSE <<SubSeq(cnts, i + 1, Min(i + batch_size, Len(cnts)))>>
         \o SlicesFrom(cnts, batch_size, i + batch_size)

\* a loop over range(0, len(cnts) - 1, batch_size): the last text is never sent
SlicesDropLast(cnts, batch_size) ==
    SlicesFrom(SubSeq(cnts, 1, Len(cnts) - 1), batch_size, 0)

Slices(cnts, batch_size) == SlicesFrom(cnts, batch_size, 0)

RECURSIVE Concat(_)
Concat(ss) == IF ss = <<>> THEN <<>> ELSE Head(ss) \o Concat(Tail(ss))

\* "q_%d_vec" % len(v)
VecField(v) == <<"q_", Len(v), "_vec">>

\* the vector is computed and never stored in the document
AttachVecDropped(d, v) == d

\* d["q_%d_vec" % len(v)] = v
AttachVec(d, v) == [d EXCEPT !.fields = Put(@, VecField(v), v)]

\* Benchmark.embedding(docs, batch_size), the collaborator behaving as enc[k]
\* on its k-th call.  calls: the slices passed to encode, in order; raised:
\* the assert failed; docs: the list as the call leaves it.
embedding(docs, batch_size, enc) ==
    LET cnts  == [i \in 1..Len(docs) |-> docs[i].content_with_weight]
        calls == Slices(cnts, batch_size)
        vects == Concat([k \in 1..Len(calls) |-> encode(calls[k], enc[k])])
        ok    == Len(docs) = Len(vects)
    IN  [calls  |-> calls,
         vects  |-> vects,
         raised |-> ~ok,
         docs   |-> IF ok THEN [i \in 1..Len(docs) |-> AttachVec(docs[i], vects[i])]
                          ELSE docs]

\* ------------------------------------------------------------ search store
\* The search backend as the code uses it: the set of existing indices and,
\* per index, the ids of the documents stored in it.
indexExist(store, idxnm) == idxnm \in store.indices
deleteIdx(store, idxnm) ==
    [indices |-> store.indices \ {idxnm},
     stored  |-> {s \in store.stored : s[1] # idxnm}]
createIdx(store, idxnm) == [store EXCEPT !.indices = @ \cup {idxnm}]
\* ELASTICSEARCH.bulk(docs, idx_nm); ok: the backend reports success
bulk(store, es_docs, idxnm, ok) ==
    IF ok THEN [indices |-> store.indices \cup {idxnm},
                stored  |-> store.stored \cup {<<idxnm, es_docs[i].id>> : i \in DOMAIN es_docs}]
    ELSE store

\* init_kb without the delete: createIdx on whatever is there
init_kb_no_delete(store, name) ==
    LET idxnm == index_name(name)
    IN  [es  |-> createIdx(store, idxnm),
         ops |-> <<"indexExist">>
                 \o <<IF indexExist(store, idxnm) THEN "createIdx_over_existing" ELSE "createIdx">>]

\* Benchmark.init_kb(index_name): the store it leaves and the backend calls made
init_kb(store, name) ==
    LET idxnm  == index_name(name)
        exists == indexExist(store, idxnm)
        s1     == IF exists THEN deleteIdx(store, index_name(name)) ELSE store
    IN  [es  |-> createIdx(s1, idxnm),
         ops |-> <<"indexExist">> \o (IF exists THEN <<"deleteIdx">> ELSE <<>>)
                 \o <<IF indexExist(s1, idxnm) THEN "createIdx_over_existing" ELSE "createIdx">>]

\* ------------------------------------------------------------ the datasets
MS_MARCO == "ms_marco_v1.1"
TRIVIA_QA == "trivia_qa"
MIRACL == "miracl"
Datasets == {MS_MARCO, TRIVIA_QA, MIRACL, "other"}
\* for lang in ['ar', 'bn', ...]
AllLangs == <<"ar", "bn", "de", "en", "es", "fa", "fi", "fr", "hi", "id", "ja",
              "ko", "ru", "sw", "te", "th", "yo", "zh">>
Langs == SubSeq(AllLangs, 1, MaxLangs)
MsMarcoIdx == <<"benchmark_", MS_MARCO>>
TriviaIdx == <<"benchmark_", TRIVIA_QA>>
MiraclIdx(lang) == <<"benchmark_", "miracl_", lang>>
AllIdx == {MsMarcoIdx, TriviaIdx} \cup {MiraclIdx(Langs[i]) : i \in DOMAIN Langs}

\* the knowledge bases a session can be bound to (KnowledgebaseService.get_by_id)
KBs == {[id |-> "kb1", similarity_threshold |-> 2, vector_similarity_weight |-> 3, embd_dim |-> 2],
        [id |-> "kb2", similarity_threshold |-> 0, vector_similarity_weight |-> 7, embd_dim |-> 3]}
\* the query strings of a dataset, named in the order of their first appearance
QueryNames == <<"q1", "q2">>
Queries == Range(QueryNames)
\* the queries the next record can have, given the qrels so far: one seen
\* before, or the next new one
NextQueries(q) ==
    Keys(q) \cup (IF Len(q) < Len(QueryNames) THEN {QueryNames[Len(q) + 1]} ELSE {})
\* how many documents one record yields (passages of a record)
RecordSizes == {0, 1, FlushThreshold}
\* MAX_WORKERS values of the environment
WorkerCounts == {1, DefaultWorkers}
EmptyStore == [indices |-> {}, stored |-> {}]
\* a store left by an earlier run: every index exists and holds a stale document 0
StaleStore == [indices |-> {index_name(n) : n \in AllIdx},
               stored  |-> {<<index_name(n), 0>> : n \in AllIdx}]

VARIABLES
    kb,            \* self.kb
    similarity_threshold, vector_similarity_weight,   \* set by __init__
    dataset,       \* argument of __call__
    max_workers,   \* int(os.environ.get('MAX_WORKERS', 3))
    es,            \* the search store
    pc,            \* where the orchestrating thread is
    err,           \* the exception that ended the run, or "none"
    dir,           \* ms_marco_index: the loop variable dir, "unbound" before the first file
    li,            \* miracl: position in the language list
    qrels, texts, docs,
    nextId,        \* get_uuid(): the next fresh id
    nrec,          \* records read by the running adapter
    threads,       \* ms_marco_index: the futures, in submission order
    ji,            \* ms_marco_index: index of the join loop
    final,         \* synchronous adapters: the flush under way is the one after the loop
    query_list, run,
    calls,         \* the retrieval calls of the current _get_retrieval: [call, ok, pending]
    bulks,         \* every ELASTICSEARCH.bulk call made: [idx, docs, ok, embedded]
    embedded,      \* synchronous adapters: embedding returned for the batch in docs
    inits,         \* the index names init_kb was called on, in order
    out,           \* what was printed
    artifacts,     \* the files written, path -> content
    e_docs, e_bs,  \* SpecEmb: the arguments of an embedding call
    e_res          \* SpecEmb: <<>>, or <<[enc, r]>> once the call has ended

vars == <<kb, similarity_threshold, vector_similarity_weight, dataset, max_workers,
          es, pc, err, dir, li, qrels, texts, docs, nextId, nrec, threads, ji, final,
          query_list, run, calls, bulks, embedded, inits, out, artifacts,
          e_docs, e_bs, e_res>>

sessionVars == <<kb, similarity_threshold, vector_similarity_weight, dataset>>
embVars == <<e_docs, e_bs, e_res>>

\* what the backend may answer to the next bulk load
BulkOutcomes ==
    IF Cardinality({i \in DOMAIN bulks : ~bulks[i].ok}) < MaxBulkFailures
    THEN BOOLEAN ELSE {TRUE}

\* the store a session finds: the first knowledge base is benchmarked on a
\* fresh store, the second after an earlier run
StoreAtStart(k) == IF k.id = "kb1" THEN EmptyStore ELSE StaleStore

\* Benchmark.__init__ and the arguments of __call__
Init ==
    /\ kb \in KBs
    /\ similarity_threshold = kb.similarity_threshold
    /\ vector_similarity_weight = kb.vector_similarity_weight
    /\ dataset \in Datasets
    /\ max_workers = DefaultWorkers
    /\ es = StoreAtStart(kb)
    /\ pc = "call"
    /\ err = "none"
    /\ dir = "unbound"
    /\ li = 1
    /\ qrels = <<>> /\ texts = <<>> /\ docs = <<>>
    /\ nextId = 1
    /\ nrec = 0
    /\ threads = <<>>
    /\ ji = 1
    /\ final = FALSE
    /\ query_list = <<>> /\ run = <<>>
    /\ calls = <<>>
    /\ bulks = <<>>
    /\ embedded = FALSE
    /\ inits = <<>>
    /\ out = <<>>
    /\ artifacts = <<>>
    /\ e_docs = <<>> /\ e_bs = 1 /\ e_res = <<>>

\* ------------------------------------------------------- document builder
Doc(id, kbid, text) == [id |-> id, kb_id |-> kbid, content_with_weight |-> text, fields |-> <<>>]
\* the text and the relevance label of the p-th passage of a record
PassageText(p) == IF p % 2 = 1 THEN "a" ELSE "b"
PassageRel(p)  == IF p = 1 THEN 1 ELSE 0
\* the documents built from a record of n passages, ids from first on
NewDocs(first, n, kbid) == [p \in 1..n |-> Doc(first + p - 1, kbid, PassageText(p))]
\* texts[d["id"]] = text, for each of them
AddTexts(t, first, n) == t \o [p \in 1..n |-> <<first + p - 1, PassageText(p)>>]
\* qrels[query][d["id"]] = int(rel), for each of them
AddQrels(q, query, first, n) ==
    IF n = 0 THEN q
    ELSE Put(q, query, GetDefault(q, query) \o [p \in 1..n |-> <<first + p - 1, PassageRel(p)>>])

\* what the embedding collaborator does during one embedding call of a run:
\* it keeps its contract, or returns one vector too few on the first call
RunEncs(n) == {[k \in 1..n |-> [delta |-> 0, dim |-> kb.embd_dim]]}
              \cup (IF n = 0 THEN {}
                    ELSE {[k \in 1..n |-> [delta |-> IF k = 1 THEN -1 ELSE 0, dim |-> kb.embd_dim]]})
NumCalls(ds) == Len(Slices(ds, EmbedBatchSize))

\* ------------------------------------------------------------------ ms_marco
\* slow_actions returns True
slow_actions_result == TRUE
Task(es_docs, idx_nm) == [es_docs |-> es_docs, idx_nm |-> idx_nm, st |-> "queued", embedded |-> FALSE]
Finished(t) == t.st \in {"done", "raised"}

\* __call__ with ms_marco_v1.1, ms_marco_index lines 85-93
MsMarcoBegin ==
    /\ pc = "call" /\ dataset = MS_MARCO
    /\ qrels' = <<>> /\ texts' = <<>> /\ docs' = <<>>
    /\ es' = init_kb(es, MsMarcoIdx).es
    /\ inits' = Append(inits, index_name(MsMarcoIdx))
    /\ max_workers' \in WorkerCounts
    /\ threads' = <<>>
    /\ pc' = "ms_loop"
    /\ UNCHANGED <<sessionVars, err, dir, li, nextId, nrec, ji, final, query_list, run,
                   calls, bulks, embedded, out, artifacts, embVars>>

\* for dir in filelist: the first file binds dir
MsMarcoOpenFile ==
    /\ pc = "ms_loop" /\ dir = "unbound"
    /\ dir' = "bound"
    /\ UNCHANGED <<sessionVars, max_workers, es, pc, err, li, qrels, texts, docs, nextId, nrec, threads,
                   ji, final, query_list, run, calls, bulks, embedded, inits, out,
                   artifacts, embVars>>

\* the loop without docs = [] after a dispatch: the list keeps growing
MsMarcoRecordKeepsDocs ==
    /\ pc = "ms_loop" /\ dir = "bound" /\ nrec < MaxRecords
    /\ \E query \in NextQueries(qrels), n \in RecordSizes :
         LET ds == docs \o NewDocs(nextId, n, kb.id) IN
         /\ texts' = AddTexts(texts, nextId, n)
         /\ qrels' = AddQrels(qrels, query, nextId, n)
         /\ nextId' = nextId + n
         /\ docs' = ds
         /\ threads' = IF Len(ds) >= FlushThreshold
                       THEN Append(threads, Task(ds, index_name(MsMarcoIdx)))
                       ELSE threads
    /\ nrec' = nrec + 1
    /\ UNCHANGED <<sessionVars, max_workers, es, pc, err, dir, li, ji, final, query_list, run, calls,
                   bulks, embedded, inits, out, artifacts, embVars>>

\* one record of the loop, lines 102-117
MsMarcoRecord ==
    /\ pc = "ms_loop" /\ dir = "bound" /\ nrec < MaxRecords
    /\ \E query \in NextQueries(qrels), n \in RecordSizes :
         LET ds == docs \o NewDocs(nextId, n, kb.id) IN
         /\ texts' = AddTexts(texts, nextId, n)
         /\ qrels' = AddQrels(qrels, query, nextId, n)
         /\ nextId' = nextId + n
         /\ IF Len(ds) >= FlushThreshold
            THEN /\ threads' = Append(threads, Task(ds, index_name(MsMarcoIdx)))
                 /\ docs' = <<>>
            ELSE /\ threads' = threads
                 /\ docs' = ds
    /\ nrec' = nrec + 1
    /\ UNCHANGED <<sessionVars, max_workers, es, pc, err, dir, li, ji, final, query_list, run, calls,
                   bulks, embedded, inits, out, artifacts, embVars>>

\* after the loop, lines 119-122: the last batch is submitted, then the join starts
MsMarcoDispatchLast ==
    /\ pc = "ms_loop"
    /\ threads' = Append(threads, Task(docs, index_name(MsMarcoIdx)))
    /\ ji' = 1
    /\ IF dir = "unbound"
       THEN pc' = "raised" /\ err' = "UnboundLocalError"
       ELSE pc' = "ms_join" /\ err' = err
    /\ UNCHANGED <<sessionVars, max_workers, es, dir, li, qrels, texts, docs, nextId, nrec, final,
                   query_list, run, calls, bulks, embedded, inits, out, artifacts, embVars>>

\* a pool worker takes the oldest queued task and runs self.embedding on its copy
TaskEmbed(i) ==
    /\ threads[i].st = "queued"
    /\ \A j \in 1..(i - 1) : threads[j].st # "queued"
    /\ Cardinality({j \in DOMAIN threads : threads[j].st = "running"}) < max_workers
    /\ \E enc \in RunEncs(NumCalls(threads[i].es_docs)) :
         LET r == embedding(threads[i].es_docs, EmbedBatchSize, enc) IN
         threads' = [threads EXCEPT ![i] =
                        IF r.raised THEN [@ EXCEPT !.st = "raised"]
                        ELSE [@ EXCEPT !.st = "running", !.es_docs = r.docs, !.embedded = TRUE]]
    /\ UNCHANGED <<sessionVars, max_workers, es, pc, err, dir, li, qrels, texts, docs, nextId, nrec, ji,
                   final, query_list, run, calls, bulks, embedded, inits, out, artifacts,
                   embVars>>

\* the worker calls ELASTICSEARCH.bulk and returns True
TaskBulk(i) ==
    /\ threads[i].st = "running"
    /\ \E ok \in BulkOutcomes :
         /\ es' = bulk(es, threads[i].es_docs, threads[i].idx_nm, ok)
         /\ bulks' = Append(bulks, [idx |-> threads[i].idx_nm, docs |-> threads[i].es_docs,
                                    ok |-> ok, embedded |-> threads[i].embedded])
    /\ threads' = [threads EXCEPT ![i].st = "done"]
    /\ UNCHANGED <<sessionVars, max_workers, pc, err, dir, li, qrels, texts, docs, nextId, nrec, ji, final,
                   query_list, run, calls, embedded, inits, out, artifacts, embVars>>

\* the query phase starts: _get_retrieval lines 49-50
StartRetrieval ==
    /\ pc' = "retrieval"
    /\ run' = <<>>
    /\ query_list' = KeyList(qrels)
    /\ calls' = <<>>

\* the futures are never awaited: the adapter returns as soon as the last
\* batch is submitted
MsMarcoJoinSkipped ==
    /\ pc = "ms_join"
    /\ StartRetrieval
    /\ UNCHANGED <<sessionVars, max_workers, es, err, dir, li, qrels, texts, docs, nextId,
                   nrec, threads, ji, final, bulks, embedded, inits, out, artifacts, embVars>>

\* one iteration of the join loop, lines 122-126
MsMarcoJoin ==
    /\ pc = "ms_join"
    /\ Finished(threads[ji])
    /\ IF threads[ji].st = "raised"
       THEN /\ pc' = "raised" /\ err' = "AssertionError"
            /\ UNCHANGED <<ji, out, run, query_list, calls>>
       ELSE IF slow_actions_result \in BOOLEAN
       THEN /\ pc' = "raised" /\ err' = "AttributeError"
            /\ UNCHANGED <<ji, out, run, query_list, calls>>
       ELSE /\ out' = IF ~slow_actions_result.output
                      THEN Append(out, <<"Indexing error...">>) ELSE out
            /\ err' = err
            /\ ji' = ji + 1
            /\ IF ji = Len(threads) THEN StartRetrieval
               ELSE pc' = pc /\ UNCHANGED <<run, query_list, calls>>
    /\ UNCHANGED <<sessionVars, max_workers, es, dir, li, qrels, texts, docs, nextId, nrec, threads, final,
                   bulks, embedded, inits, artifacts, embVars>>

\* ------------------------------------------------- trivia_qa and miracl
\* __call__ with trivia_qa, trivia_qa_index lines 129-132
TriviaBegin ==
    /\ pc = "call" /\ dataset = TRIVIA_QA
    /\ qrels' = <<>> /\ texts' = <<>> /\ docs' = <<>>
    /\ pc' = "t_loop"
    /\ UNCHANGED <<sessionVars, max_workers, es, err, dir, li, nextId, nrec, threads, ji, final, query_list,
                   run, calls, bulks, embedded, inits, out, artifacts, embVars>>

\* one record of the loop, lines 136-146; the flush itself is SyncEmbed, SyncBulk
TriviaRecord ==
    /\ pc = "t_loop" /\ nrec < MaxRecords
    /\ \E query \in NextQueries(qrels), n \in RecordSizes :
         /\ docs' = docs \o NewDocs(nextId, n, "none")
         /\ texts' = AddTexts(texts, nextId, n)
         /\ qrels' = AddQrels(qrels, query, nextId, n)
         /\ nextId' = nextId + n
    /\ nrec' = nrec + 1
    /\ pc' = IF Len(docs') >= FlushThreshold THEN "embed" ELSE pc
    /\ final' = FALSE
    /\ embedded' = FALSE
    /\ UNCHANGED <<sessionVars, max_workers, es, err, dir, li, threads, ji, query_list, run, calls,
                   bulks, inits, out, artifacts, embVars>>

\* the last flush guarded by "if docs:": an empty remainder is not flushed
LoopEndSkipsEmpty ==
    /\ pc \in {"t_loop", "m_loop"}
    /\ IF docs = <<>>
       THEN StartRetrieval /\ UNCHANGED <<final, embedded>>
       ELSE /\ pc' = "embed"
            /\ final' = TRUE
            /\ embedded' = FALSE
            /\ UNCHANGED <<query_list, run, calls>>
    /\ UNCHANGED <<sessionVars, max_workers, es, err, dir, li, qrels, texts, docs, nextId, nrec, threads,
                   ji, bulks, inits, out, artifacts, embVars>>

\* the loop of trivia_qa_index or miracl_index ends: the flush of lines 151, 196
LoopEnd ==
    /\ pc \in {"t_loop", "m_loop"}
    /\ pc' = "embed"
    /\ final' = TRUE
    /\ embedded' = FALSE
    /\ UNCHANGED <<sessionVars, max_workers, es, err, dir, li, qrels, texts, docs, nextId, nrec, threads,
                   ji, query_list, run, calls, bulks, inits, out, artifacts, embVars>>

\* docs = self.embedding(docs), lines 147, 151, 192, 196
SyncEmbed ==
    /\ pc = "embed"
    /\ \E enc \in RunEncs(NumCalls(docs)) :
         LET r == embedding(docs, EmbedBatchSize, enc) IN
         IF r.raised
         THEN pc' = "raised" /\ err' = "AssertionError" /\ UNCHANGED <<docs, embedded>>
         ELSE pc' = "bulk" /\ err' = err /\ docs' = r.docs /\ embedded' = TRUE
    /\ UNCHANGED <<sessionVars, max_workers, es, dir, li, qrels, texts, nextId, nrec, threads, ji, final,
                   query_list, run, calls, bulks, inits, out, artifacts, embVars>>

\* the index the running adapter loads and the query runner is given
CurIdx == CASE dataset = MS_MARCO -> MsMarcoIdx
            [] dataset = TRIVIA_QA -> TriviaIdx
            [] OTHER -> MiraclIdx(Langs[li])

\* ELASTICSEARCH.bulk(docs, ...) of lines 148, 152, 193, 197, then docs = [] or return
SyncBulk ==
    /\ pc = "bulk"
    /\ \E ok \in BulkOutcomes :
         /\ es' = bulk(es, docs, index_name(CurIdx), ok)
         /\ bulks' = Append(bulks, [idx |-> index_name(CurIdx), docs |-> docs,
                                    ok |-> ok, embedded |-> embedded])
    /\ IF final
       THEN StartRetrieval /\ docs' = docs
       ELSE /\ pc' = IF dataset = TRIVIA_QA THEN "t_loop" ELSE "m_loop"
            /\ docs' = <<>>
            /\ UNCHANGED <<run, query_list, calls>>
    /\ embedded' = FALSE
    /\ UNCHANGED <<sessionVars, max_workers, err, dir, li, qrels, texts, nextId, nrec, threads, ji, final,
                   inits, out, artifacts, embVars>>

\* which of the four directories checked for a language is missing
Missing == {"none", "dataset", "qrels", "topics", "corpus"}
MissingPath(m, lang) ==
    CASE m = "dataset" -> <<"file_path", "miracl-v1.0-", lang>>
      [] m = "qrels"   -> <<"file_path", "miracl-v1.0-", lang, "qrels">>
      [] m = "topics"  -> <<"file_path", "miracl-v1.0-", lang, "topics">>
      [] m = "corpus"  -> <<"miracl_corpus", "miracl-corpus-v1.0-", lang>>

\* the line printed for a language whose directory m is missing
SkipLine(m, lang) == <<"Directory: ">> \o MissingPath(m, lang) \o <<"not found!">>
\* what can be missing for the language at hand: the dataset tree is laid out
\* alike for all languages, so a language that is skipped misses the
\* directory that the languages skipped before it missed
MissingNow ==
    LET printed == {m \in Missing \ {"none"} :
                       \E k \in 1..(li - 1) : \E i \in DOMAIN out : out[i] = SkipLine(m, Langs[k])}
    IN  IF printed = {} THEN Missing ELSE printed \cup {"none"}

\* a missing directory ends the run instead of the iteration (return, not continue)
MiraclLangReturnsOnMissing ==
    /\ pc = "call" /\ dataset = MIRACL /\ li <= Len(Langs)
    /\ \E m \in MissingNow :
         IF m # "none"
         THEN /\ out' = Append(out, SkipLine(m, Langs[li]))
              /\ pc' = "done"
              /\ UNCHANGED <<li, qrels, texts, docs>>
         ELSE /\ qrels' = <<>> /\ texts' = <<>> /\ docs' = <<>>
              /\ pc' = "m_loop"
              /\ UNCHANGED <<out, li>>
    /\ UNCHANGED <<sessionVars, max_workers, es, err, dir, nextId, nrec, threads, ji, final, query_list, run,
                   calls, bulks, embedded, inits, artifacts, embVars>>

\* __call__ with miracl: one language of the loop, lines 233-249, up to the
\* start of miracl_index (lines 157-173)
MiraclLang ==
    /\ pc = "call" /\ dataset = MIRACL /\ li <= Len(Langs)
    /\ \E m \in MissingNow :
         IF m # "none"
         THEN /\ out' = Append(out, SkipLine(m, Langs[li]))
              /\ li' = li + 1
              /\ UNCHANGED <<pc, qrels, texts, docs>>
         ELSE /\ qrels' = <<>> /\ texts' = <<>> /\ docs' = <<>>
              /\ pc' = "m_loop"
              /\ UNCHANGED <<out, li>>
    /\ UNCHANGED <<sessionVars, max_workers, es, err, dir, nextId, nrec, threads, ji, final, query_list, run,
                   calls, bulks, embedded, inits, artifacts, embVars>>

\* the language list is exhausted
MiraclDone ==
    /\ pc = "call" /\ dataset = MIRACL /\ li > Len(Langs)
    /\ pc' = "done"
    /\ UNCHANGED <<sessionVars, max_workers, es, err, dir, li, qrels, texts, docs, nextId, nrec, threads,
                   ji, final, query_list, run, calls, bulks, embedded, inits, out,
                   artifacts, embVars>>

\* n consecutive rows of one query, lines 180-191: each row is one document and
\* the threshold is tested after each, so n rows that do not pass it are n
\* iterations without a flush; found: the row's qid and docid are known
MiraclRows ==
    /\ pc = "m_loop" /\ nrec < MaxRecords
    /\ \E query \in NextQueries(qrels), n \in RecordSizes \ {0}, found \in BOOLEAN :
         /\ Len(docs) + n <= FlushThreshold
         /\ IF ~found
            THEN /\ pc' = "raised" /\ err' = "KeyError"
                 /\ UNCHANGED <<docs, texts, qrels, nextId>>
            ELSE /\ docs' = docs \o NewDocs(nextId, n, "none")
                 /\ texts' = AddTexts(texts, nextId, n)
                 /\ qrels' = AddQrels(qrels, query, nextId, n)
                 /\ nextId' = nextId + n
                 /\ pc' = IF Len(docs') >= FlushThreshold THEN "embed" ELSE pc
                 /\ err' = err
    /\ nrec' = nrec + 1
    /\ final' = FALSE
    /\ embedded' = FALSE
    /\ UNCHANGED <<sessionVars, max_workers, es, dir, li, threads, ji, query_list, run, calls, bulks,
                   inits, out, artifacts, embVars>>

\* __call__ with a dataset name it does not know: nothing happens
OtherDataset ==
    /\ pc = "call" /\ dataset \notin {MS_MARCO, TRIVIA_QA, MIRACL}
    /\ pc' = "done"
    /\ UNCHANGED <<sessionVars, max_workers, es, err, dir, li, qrels, texts, docs, nextId, nrec, threads,
                   ji, final, query_list, run, calls, bulks, embedded, inits, out,
                   artifacts, embVars>>

\* ------------------------------------------------------------ query runner
MinOf(S) == CHOOSE x \in S : \A y \in S : x <= y
MaxOf(S) == CHOOSE x \in S : \A y \in S : x >= y
Chunk(id, sim, vec) == [chunk_id |-> id, similarity |-> sim, vector |-> vec]
\* what the retriever may answer on an index: an error (ok is FALSE), no
\* chunk, or chunks of documents the index holds (vector: the chunk carries
\* a "vector" key)
RetrievalResults(idxnm) ==
    LET S == {s[2] : s \in {t \in es.stored : t[1] = idxnm}} IN
    {[ok |-> FALSE, chunks |-> <<>>], [ok |-> TRUE, chunks |-> <<>>]}
    \cup (IF S = {} THEN {}
          ELSE {[ok |-> TRUE, chunks |-> <<Chunk(MaxOf(S), 9, FALSE), Chunk(MinOf(S), 5, TRUE)>>]})

\* the two keys exchanged: run[str(c["chunk_id"])][query] = c["similarity"]
RECURSIVE AddChunksSwapped(_, _, _)
AddChunksSwapped(r, query, chunks) ==
    IF chunks = <<>> THEN r
    ELSE AddChunksSwapped(Put2(r, ToString(Head(chunks).chunk_id), query,
                               Head(chunks).similarity),
                          query, Tail(chunks))

\* for c in ranks["chunks"]: ... run[query][c["chunk_id"]] = c["similarity"]
RECURSIVE AddChunks(_, _, _)
AddChunks(r, query, chunks) ==
    IF chunks = <<>> THEN r
    ELSE AddChunks(Put2(r, query, Head(chunks).chunk_id, Head(chunks).similarity),
                   query, Tail(chunks))

\* the arguments of retrievaler.retrieval, lines 53-55
RetrievalCall(query, dataset_idxnm) ==
    [query |-> query,
     tenant |-> StripPrefix(dataset_idxnm),
     index |-> index_name(StripPrefix(dataset_idxnm)),
     kb_ids |-> <<kb.id>>,
     offset |-> RetrievalOffset,
     limit |-> RetrievalLimit,
     similarity_threshold |-> RetrievalThresh,
     vector_similarity_weight |-> vector_similarity_weight]

\* batches handed over for indexing whose embed and bulk load have not ended
Pending ==
    Cardinality({i \in DOMAIN threads : ~Finished(threads[i])})
    + (IF pc \in {"embed", "bulk"} THEN 1 ELSE 0)

\* the loop with the call wrapped in try/except: a failed query is skipped
RetrievalSkipsFailed ==
    /\ pc = "retrieval" /\ query_list # <<>>
    /\ LET query == Head(query_list)
           call  == RetrievalCall(query, CurIdx) IN
       /\ \E ranks \in RetrievalResults(call.index) :
            /\ calls' = Append(calls, [call |-> call, ok |-> ranks.ok, pending |-> Pending])
            /\ run' = AddChunks(run, query, ranks.chunks)
            /\ query_list' = Tail(query_list)
    /\ UNCHANGED <<sessionVars, max_workers, es, pc, err, dir, li, qrels, texts, docs, nextId,
                   nrec, threads, ji, final, bulks, embedded, inits, out, artifacts, embVars>>

\* one iteration of the loop of _get_retrieval, lines 51-59
Retrieval ==
    /\ pc = "retrieval" /\ query_list # <<>>
    /\ LET query == Head(query_list)
           call  == RetrievalCall(query, CurIdx) IN
       /\ \E ranks \in RetrievalResults(call.index) :
            /\ calls' = Append(calls, [call |-> call, ok |-> ranks.ok, pending |-> Pending])
            /\ IF ~ranks.ok
               THEN pc' = "raised" /\ err' = "RetrievalError" /\ UNCHANGED <<run, query_list>>
               ELSE /\ run' = AddChunks(run, query, ranks.chunks)
                    /\ query_list' = Tail(query_list)
                    /\ pc' = pc /\ err' = err
    /\ UNCHANGED <<sessionVars, max_workers, es, dir, li, qrels, texts, docs, nextId, nrec, threads, ji,
                   final, bulks, embedded, inits, out, artifacts, embVars>>

\* --------------------------------------------------------------- evaluator
\* sorted(s, key=...) on the pairs <<key, item>>: ascending, stable
SortByKey(s) ==
    LET pos == [i \in DOMAIN s |->
                  Cardinality({j \in DOMAIN s : s[j][1] < s[i][1]})
                  + Cardinality({j \in 1..i : s[j][1] = s[i][1]})]
    IN  [p \in DOMAIN s |-> s[CHOOSE i \in DOMAIN s : pos[i] = p]]

\* evaluate({key: qrel}, {key: r}, "ndcg@10") of the metrics library, in
\* thousandths: the discounted gain of the ten best-scored documents of r over
\* that of the ideal ranking of qrel.  Disc[i] is 1000 / log2(i + 1).
Disc == <<1000, 631, 500, 431, 387, 356, 333, 315, 301, 289>>
SortDesc(s) ==
    LET t == SortByKey([i \in DOMAIN s |-> <<0 - s[i][1], s[i][2]>>])
    IN  [i \in DOMAIN t |-> t[i][2]]
\* the grades of qrel in descending order, as far as the discount reaches
IdealGrades(qrel) ==
    [p \in 1..Min(Len(qrel), Len(Disc)) |->
        CHOOSE g \in {qrel[j][2] : j \in DOMAIN qrel} :
            /\ Cardinality({j \in DOMAIN qrel : qrel[j][2] > g}) < p
            /\ p <= Cardinality({j \in DOMAIN qrel : qrel[j][2] >= g})]
RECURSIVE DCG(_, _)
DCG(grades, i) ==
    IF i > Len(grades) \/ i > Len(Disc) THEN 0
    ELSE grades[i] * Disc[i] + DCG(grades, i + 1)
ndcg10(qrel, r) ==
    LET ranked == SortDesc([i \in DOMAIN r |-> <<r[i][2], r[i][1]>>])
        gains  == [i \in DOMAIN ranked |->
                     IF HasKey(qrel, ranked[i]) THEN Get(qrel, ranked[i]) ELSE 0]
        ideal  == IdealGrades(qrel)
    IN  IF DCG(ideal, 1) = 0 THEN 0 ELSE (DCG(gains, 1) * 1000) \div DCG(ideal, 1)

\* keep_result left in the order of run.keys(), the sort of line 208 missing
keep_result_unsorted(q, r, ndcg) ==
    [i \in DOMAIN r |-> [query |-> r[i][1], qrel |-> GetDefault(q, r[i][1]),
                         run |-> r[i][2], ndcg |-> ndcg[r[i][1]]]]

\* lines 202-208: keep_result, sorted by ndcg@10
keep_result(q, r, ndcg) ==
    LET unsorted == [i \in DOMAIN r |->
                       <<ndcg[r[i][1]],
                         [query |-> r[i][1], qrel |-> GetDefault(q, r[i][1]),
                          run |-> r[i][2], ndcg |-> ndcg[r[i][1]]]>>]
        sorted == SortByKey(unsorted)
    IN  [i \in DOMAIN sorted |-> sorted[i][2]]

\* lines 213-216: the lines written for one query
ReportHits(entry, t) ==
    LET scores == SortByKey([i \in DOMAIN entry.run |-> <<entry.run[i][2], entry.run[i]>>])
        top    == SubSeq(scores, 1, Min(ReportTop, Len(scores)))
    IN  [i \in DOMAIN top |-> [text |-> GetDefault(t, top[i][2][1]), qrel |-> top[i][2][2]]]

\* lines 209-216: the report
Report(q, r, t, ndcg) ==
    LET kept == keep_result(q, r, ndcg)
    IN  [i \in DOMAIN kept |-> [query |-> kept[i].query, ndcg |-> kept[i].ndcg,
                                 hits |-> ReportHits(kept[i], t)]]

\* files opened in exclusive-creation mode: what is already there is kept
save_results_keeps_existing(files, q, r, t, ds, file_path, ndcg) ==
    IF HasKey(files, <<file_path, ds, "result.md">>) THEN files
    ELSE Put(Put(Put(files, <<file_path, ds, "result.md">>, Report(q, r, t, ndcg)),
                 <<file_path, ds, ".qrels.json">>, q),
             <<file_path, ds, ".run.json">>, r)

\* save_results: the three files after it, lines 209-218
save_results(files, q, r, t, ds, file_path, ndcg) ==
    LET f1 == Put(files, <<file_path, ds, "result.md">>, Report(q, r, t, ndcg))
        f2 == Put(f1, <<file_path, ds, ".qrels.json">>, q)
    IN  Put(f2, <<file_path, ds, ".run.json">>, r)

\* _get_retrieval returns; evaluate is printed; save_results; lines 224-226,
\* 229-231, 250-252
Evaluate ==
    /\ pc = "retrieval" /\ query_list = <<>>
    /\ LET ndcg == [k \in Keys(run) |-> ndcg10(GetDefault(qrels, k), Get(run, k))] IN
         artifacts' = save_results(artifacts, qrels, run, texts, dataset, "file_path", ndcg)
    /\ out' = out \o << <<dataset, "scores">>, <<"file_path", dataset, "_result.md", "Saved!">> >>
    /\ IF dataset = MIRACL
       THEN pc' = "call" /\ li' = li + 1
       ELSE pc' = "done" /\ li' = li
    /\ UNCHANGED <<sessionVars, max_workers, es, err, dir, qrels, texts, docs, nextId, nrec, threads, ji,
                   final, query_list, run, calls, bulks, embedded, inits, embVars>>

Next ==
    \/ MsMarcoBegin
    \/ MsMarcoOpenFile
    \/ MsMarcoRecord
    \/ MsMarcoDispatchLast
    \/ \E i \in DOMAIN threads : TaskEmbed(i)
    \/ \E i \in DOMAIN threads : TaskBulk(i)
    \/ MsMarcoJoin
    \/ TriviaBegin
    \/ TriviaRecord
    \/ LoopEnd
    \/ SyncEmbed
    \/ SyncBulk
    \/ MiraclLang
    \/ MiraclDone
    \/ MiraclRows
    \/ OtherDataset
    \/ Retrieval
    \/ Evaluate

Spec == Init /\ [][Next]_vars

\* ------------------------------------------------ embedding on its own
\* every document sequence of at most n documents, ids 1, 2, ...
DocSeqs(n) ==
    UNION {{[i \in 1..k |-> Doc(i, "none", f[i])] : f \in [1..k -> Texts]} : k \in 0..n}

EmbInit ==
    /\ e_docs \in DocSeqs(MaxLen)
    /\ e_bs \in 1..MaxBatch
    /\ e_res = <<>>
    /\ kb = CHOOSE k \in KBs : k.id = "kb1"
    /\ similarity_threshold = kb.similarity_threshold
    /\ vector_similarity_weight = kb.vector_similarity_weight
    /\ dataset = "other"
    /\ max_workers = DefaultWorkers
    /\ es = EmptyStore
    /\ pc = "off"
    /\ err = "none"
    /\ dir = "unbound"
    /\ li = 1
    /\ qrels = <<>> /\ texts = <<>> /\ docs = <<>>
    /\ nextId = 1
    /\ nrec = 0
    /\ threads = <<>>
    /\ ji = 1
    /\ final = FALSE
    /\ query_list = <<>> /\ run = <<>>
    /\ calls = <<>>
    /\ bulks = <<>>
    /\ embedded = FALSE
    /\ inits = <<>>
    /\ out = <<>>
    /\ artifacts = <<>>

\* self.embedding(e_docs, e_bs), whatever each call of the collaborator does
EmbeddingCall ==
    /\ e_res = <<>>
    /\ \E enc \in [1..Len(Slices(e_docs, e_bs)) -> Behaviours] :
         e_res' = <<[enc |-> enc, r |-> embedding(e_docs, e_bs, enc)]>>
    /\ UNCHANGED <<sessionVars, max_workers, es, pc, err, dir, li, qrels, texts, docs,
                   nextId, nrec, threads, ji, final, query_list, run, calls, bulks,
                   embedded, inits, out, artifacts, e_docs, e_bs>>

EmbNext == EmbeddingCall

SpecEmb == EmbInit /\ [][EmbNext]_vars

\* ------------------------------------------------- init_kb on its own
\* the index names init_kb is called with and the stores it can find: any of
\* these indices present, each holding any of the documents 1..MaxStored
KbNames == {MsMarcoIdx, TriviaIdx}
StoreStates ==
    UNION {{[indices |-> {index_name(n) : n \in I}, stored |-> S] :
               S \in SUBSET ({index_name(n) : n \in I} \X (1..MaxStored))} :
           I \in SUBSET KbNames}

KbInit ==
    /\ es \in StoreStates
    /\ e_res = <<es>>
    /\ e_docs = <<>> /\ e_bs = 1
    /\ kb = CHOOSE k \in KBs : k.id = "kb1"
    /\ similarity_threshold = kb.similarity_threshold
    /\ vector_similarity_weight = kb.vector_similarity_weight
    /\ dataset = "other"
    /\ max_workers = DefaultWorkers
    /\ pc = "kb"
    /\ err = "none"
    /\ dir = "unbound"
    /\ li = 1
    /\ qrels = <<>> /\ texts = <<>> /\ docs = <<>>
    /\ nextId = 1
    /\ nrec = 0
    /\ threads = <<>>
    /\ ji = 1
    /\ final = FALSE
    /\ query_list = <<>> /\ run = <<>>
    /\ calls = <<>>
    /\ bulks = <<>>
    /\ embedded = FALSE
    /\ inits = <<>>
    /\ out = <<>>
    /\ artifacts = <<>>

\* Benchmark.init_kb(name), the second time on the name of the first
InitKbCall ==
    /\ pc = "kb" /\ Len(inits) < 2
    /\ \E name \in (IF inits = <<>> THEN KbNames ELSE {StripPrefix(inits[1])}) :
         LET r == init_kb(es, name) IN
         /\ es' = r.es
         /\ inits' = Append(inits, index_name(name))
         /\ out' = Append(out, r.ops)
    /\ UNCHANGED <<sessionVars, max_workers, pc, err, dir, li, qrels, texts, docs, nextId,
                   nrec, threads, ji, final, query_list, run, calls, bulks, embedded,
                   artifacts, embVars>>

KbNext == InitKbCall

SpecKb == KbInit /\ [][KbNext]_vars

\* --------------------------------------------- save_results on its own
\* the per-query values evaluate can return, in thousandths
ScoreVals == {0, 500, 1000}
\* run[query] as the retriever fills it: n hits, best first
Sim(i) == 20 - i
HitLists == {[i \in 1..n |-> <<i, Sim(i)>>] : n \in {1, 2, ReportTop + 1}}
\* runs over the queries, in every order of insertion
SaveRuns ==
    UNION {{[i \in DOMAIN ks |-> <<ks[i], h[ks[i]]>>] : h \in [Range(ks) -> HitLists]} :
           ks \in {<<>>} \cup {<<q>> : q \in Queries}
                  \cup {<<p, q>> : <<p, q>> \in {x \in Queries \X Queries : x[1] # x[2]}}}
SaveQrels == [i \in DOMAIN QueryNames |->
                <<QueryNames[i], [d \in 1..(ReportTop + 1) |-> <<d, PassageRel(d)>>]>>]
SaveTexts == [d \in 1..(ReportTop + 1) |-> <<d, <<"text", d>>>>]

SaveInit ==
    /\ run \in SaveRuns
    /\ e_res \in {<<f>> : f \in [Keys(run) -> ScoreVals]}
    /\ qrels = SaveQrels
    /\ texts = SaveTexts
    /\ e_docs = <<>> /\ e_bs = 1
    /\ kb = CHOOSE k \in KBs : k.id = "kb1"
    /\ similarity_threshold = kb.similarity_threshold
    /\ vector_similarity_weight = kb.vector_similarity_weight
    /\ dataset = TRIVIA_QA
    /\ max_workers = DefaultWorkers
    /\ es = EmptyStore
    /\ pc = "save"
    /\ err = "none"
    /\ dir = "unbound"
    /\ li = 1
    /\ docs = <<>>
    /\ nextId = 1
    /\ nrec = 0
    /\ threads = <<>>
    /\ ji = 1
    /\ final = FALSE
    /\ query_list = <<>>
    /\ calls = <<>>
    /\ bulks = <<>>
    /\ embedded = FALSE
    /\ inits = <<>>
    /\ out = <<>>
    /\ artifacts = <<>>

\* self.save_results(qrels, run, texts, dataset, file_path), evaluate returning
\* e_res[1][key] for the query key
SaveResultsCall ==
    /\ pc = "save"
    /\ artifacts' = save_results(artifacts, qrels, run, texts, dataset, "file_path", e_res[1])
    /\ out' = Append(out, <<"file_path", dataset, "_result.md", "Saved!">>)
    /\ pc' = "saved"
    /\ UNCHANGED <<sessionVars, max_workers, es, err, dir, li, qrels, texts, docs, nextId,
                   nrec, threads, ji, final, query_list, run, calls, bulks, embedded,
                   inits, embVars>>

SaveNext == SaveResultsCall

SpecSave == SaveInit /\ [][SaveNext]_vars

\* ================================================================ claims
Seen(log, line) == \E i \in DOMAIN log : log[i] = line
ReturnedRun == pc = "retrieval" /\ query_list = <<>>

\* C1: no retrieval call is issued against an index while a batch dispatched
\* or submitted for that index has not finished its embed and bulk load.
C1_IndexQueryBarrier ==
    /\ \A i \in DOMAIN calls : calls[i].pending = 0
    /\ (pc = "retrieval" => Pending = 0)

\* C1: a retrieval call was issued on an index after two bulk loads into it
C1_Witness ==
    /\ calls # <<>>
    /\ Cardinality({j \in DOMAIN bulks : bulks[j].idx = calls[1].call.index}) >= 2

\* C2 (as claimed): in ms_marco_index, when every dispatched task has ended
\* its embed and bulk load successfully, the join returns and the run goes on
\* to the query phase, so such a run can only be ended by the query phase.
C2_JoinReturns ==
    (/\ dataset = MS_MARCO
     /\ dir = "bound"
     /\ threads # <<>>
     /\ \A i \in DOMAIN threads : threads[i].st = "done"
     /\ pc = "raised")
    => err = "RetrievalError"

\* C3 (as claimed): when the backend reports failure for a bulk load, a
\* diagnostic is logged and the adapter still returns, so once the query
\* phase starts every failed bulk load has left its diagnostic.
C3_BulkFailureLogged ==
    (pc = "retrieval" /\ \E i \in DOMAIN bulks : ~bulks[i].ok)
    => Seen(out, <<"Indexing error...">>)

\* C4: whenever ELASTICSEARCH.bulk is called on a batch, the embedding call of
\* that batch has returned and every document of the batch carries exactly one
\* vector field, named q_<n>_vec for a vector of length n.
C4_EmbedThenStore ==
    \A i \in DOMAIN bulks :
        /\ bulks[i].embedded
        /\ \A k \in DOMAIN bulks[i].docs :
             LET f == bulks[i].docs[k].fields IN
             /\ Len(f) = 1
             /\ f[1][1] = <<"q_", Len(f[1][2]), "_vec">>
             /\ Len(f[1][2]) = kb.embd_dim

\* C4: a pool worker of ms_marco_index has bulk-loaded a full batch
C4_Witness ==
    /\ dataset = MS_MARCO
    /\ \E i \in DOMAIN bulks : Len(bulks[i].docs) >= FlushThreshold

\* C5 (as claimed): every index a bulk load targets had init_kb called on it
\* exactly once in this run, before that bulk load.
C5_InitOnceBeforeBulk ==
    \A i \in DOMAIN bulks :
        Cardinality({j \in DOMAIN inits : inits[j] = bulks[i].idx}) = 1

\* C6 (as claimed): for ms_marco_v1.1 and trivia_qa the run returned by
\* _get_retrieval has exactly the keys of qrels.
C6_RunKeysEqual ==
    (dataset \in {MS_MARCO, TRIVIA_QA} /\ ReturnedRun) => Keys(run) = Keys(qrels)

\* C7: every key of the run built by _get_retrieval is a key of the qrels it
\* was given, while it is built, when it is returned and as it is saved.
C7_RunKeysSubset ==
    /\ (pc = "retrieval" => Keys(run) \subseteq Keys(qrels))
    /\ (HasKey(artifacts, <<"file_path", dataset, ".run.json">>)
        => Keys(Get(artifacts, <<"file_path", dataset, ".run.json">>))
           \subseteq Keys(Get(artifacts, <<"file_path", dataset, ".qrels.json">>)))

\* C7: a miracl language whose run holds some, not all, of the queries
C7_Witness ==
    /\ dataset = MIRACL
    /\ ReturnedRun
    /\ run # <<>>
    /\ Len(run) < Len(qrels)

\* C8: _get_retrieval issues one retrieval call per key of qrels, none twice;
\* a failed call ends the run with the collaborator's error: the query is not
\* skipped, no run is returned and nothing is saved.
C8_OneCallPerQueryNoSkip ==
    (pc = "retrieval" \/ err = "RetrievalError") =>
        /\ Len(calls) <= Len(qrels)
        /\ \A i \in DOMAIN calls : calls[i].call.query = qrels[i][1]
        /\ \A i, j \in DOMAIN calls : i # j => calls[i].call.query # calls[j].call.query
        /\ (ReturnedRun => Len(calls) = Len(qrels))
        /\ \A i \in DOMAIN calls :
             ~calls[i].ok => pc = "raised" /\ err = "RetrievalError" /\ i = Len(calls)
        /\ (err = "RetrievalError" =>
              /\ pc = "raised"
              /\ ~calls[Len(calls)].ok
              /\ query_list # <<>>
              /\ (dataset # MIRACL => artifacts = <<>>))

\* C8: the second of two queries failed after the first was answered
C8_Witness ==
    /\ err = "RetrievalError"
    /\ Len(qrels) = 2
    /\ Len(calls) = 2
    /\ calls[1].ok

\* C9 (as claimed): every retrieval call uses offset 0, limit 30 and the
\* session's similarity_threshold and vector_similarity_weight.
C9_SessionHyperparameters ==
    \A i \in DOMAIN calls :
        /\ calls[i].call.offset = 0
        /\ calls[i].call.limit = 30
        /\ calls[i].call.similarity_threshold = similarity_threshold
        /\ calls[i].call.vector_similarity_weight = vector_similarity_weight

\* the least k with k * b >= n
CeilDiv(n, b) == CHOOSE k \in 0..n : k * b >= n /\ (k = 0 \/ (k - 1) * b < n)
KeptContract(enc) == \A k \in DOMAIN enc : enc[k].delta = 0

\* C10: embedding(docs, B) on N documents calls the collaborator ceil(N/B)
\* times, on the contiguous slices of at most B documents in input order; it
\* returns N documents, each with one vector field named q_<len(vector)>_vec
\* that holds the vector returned at its position, which is the vector of its
\* own text when the collaborator returns one vector per text.
C10_EmbeddingBatches ==
    e_res # <<>> =>
        LET r   == e_res[1].r
            enc == e_res[1].enc
            N   == Len(e_docs)
            B   == e_bs
        IN  /\ Len(r.calls) = CeilDiv(N, B)
            /\ \A k \in DOMAIN r.calls :
                 /\ Len(r.calls[k]) >= 1 /\ Len(r.calls[k]) <= B
                 /\ (k < Len(r.calls) => Len(r.calls[k]) = B)
                 /\ \A j \in DOMAIN r.calls[k] :
                      r.calls[k][j] = e_docs[(k - 1) * B + j].content_with_weight
            /\ (N > 0 => (Len(r.calls) - 1) * B + Len(r.calls[Len(r.calls)]) = N)
            /\ (~r.raised =>
                  /\ Len(r.docs) = N
                  /\ \A i \in 1..N :
                       /\ Len(r.docs[i].fields) = 1
                       /\ r.docs[i].fields[1][1] = <<"q_", Len(r.vects[i]), "_vec">>
                       /\ r.docs[i].fields[1][2] = r.vects[i]
                       /\ r.docs[i].id = e_docs[i].id)
            /\ (KeptContract(enc) =>
                  /\ ~r.raised
                  /\ \A i \in 1..N :
                       LET d == enc[((i - 1) \div B) + 1].dim IN
                       r.docs[i].fields =
                           << << <<"q_", d, "_vec">>,
                                 [x \in 1..d |-> e_docs[i].content_with_weight] >> >>)

\* C10: three documents embedded in batches of two, the second batch partial
C10_Witness ==
    /\ e_res # <<>>
    /\ Len(e_docs) = 3 /\ e_bs = 2
    /\ KeptContract(e_res[1].enc)
    /\ ~e_res[1].r.raised

\* C11 (as claimed): when any single call of the collaborator returns a number
\* of vectors different from the size of its batch, embedding raises and no
\* document receives a vector field, also when the mismatches of two batches
\* cancel out in the total.
C11_PerBatchCountChecked ==
    (e_res # <<>> /\ ~KeptContract(e_res[1].enc)) =>
        /\ e_res[1].r.raised
        /\ \A i \in DOMAIN e_res[1].r.docs : e_res[1].r.docs[i].fields = <<>>

\* C12 (as claimed): in every adapter a flush happens as soon as 32 documents
\* have accumulated, so every flushed or dispatched batch other than the
\* final one holds exactly 32 documents, also when a record yields several
\* documents.
C12_FlushAtThreshold ==
    /\ (pc = "embed" /\ ~final => Len(docs) = FlushThreshold)
    /\ \A i \in DOMAIN threads :
         (pc = "ms_loop" \/ i < Len(threads)) => Len(threads[i].es_docs) = FlushThreshold

\* C13: from any store, after each of two successive calls of init_kb(name)
\* the index exists and holds no document, no call creates the index while it
\* still exists, and the other indices keep their documents.
C13_InitKbIdempotent ==
    (pc = "kb" /\ inits # <<>>) =>
        /\ indexExist(es, inits[1])
        /\ {s \in es.stored : s[1] = inits[1]} = {}
        /\ \A i \in DOMAIN out :
             /\ out[i][Len(out[i])] = "createIdx"
             /\ \A j \in DOMAIN out[i] : out[i][j] # "createIdx_over_existing"
        /\ {s \in es.stored : s[1] # inits[1]} = {s \in e_res[1].stored : s[1] # inits[1]}
        /\ es.indices = e_res[1].indices \cup {inits[1]}

\* C13: init_kb was called twice on an index that held documents
C13_Witness ==
    /\ pc = "kb"
    /\ Len(inits) = 2
    /\ inits[1] = inits[2]
    /\ \E s \in e_res[1].stored : s[1] = inits[1]
    /\ out = << <<"indexExist", "deleteIdx", "createIdx">>,
                <<"indexExist", "deleteIdx", "createIdx">> >>

\* C14 (as claimed): when an adapter's indexing phase has ended, every
\* document id of qrels has an entry in texts and is in the search store,
\* also when a bulk load of the run reported failure.
C14_QrelsCovered ==
    pc = "retrieval" =>
        \A i \in DOMAIN qrels : \A j \in DOMAIN qrels[i][2] :
            /\ HasKey(texts, qrels[i][2][j][1])
            /\ <<index_name(CurIdx), qrels[i][2][j][1]>> \in es.stored

\* the diagnostic of a skipped language has been printed
LangSkipped(l) ==
    \E i \in DOMAIN out :
        /\ out[i][1] = "Directory: "
        /\ out[i][Len(out[i])] = "not found!"
        /\ \E j \in DOMAIN out[i] : out[i][j] = l
LangIndexed(l) == \E i \in DOMAIN bulks : bulks[i].idx = index_name(MiraclIdx(l))
SavedCount ==
    Cardinality({i \in DOMAIN out : out[i] = <<"file_path", dataset, "_result.md", "Saved!">>})
ArtifactPaths == {<<"file_path", dataset, "result.md">>,
                  <<"file_path", dataset, ".qrels.json">>,
                  <<"file_path", dataset, ".run.json">>}

\* C15: in a miracl run a language with a missing directory is skipped with a
\* printed diagnostic: nothing is bulk-loaded into or queried from its index,
\* nothing is saved for it and the loop goes on; every language passed that
\* was not skipped has been indexed and saved, and the run returns only after
\* the whole list.
C15_MissingLanguageSkipped ==
    dataset = MIRACL =>
        /\ \A k \in DOMAIN Langs :
             LangSkipped(Langs[k]) =>
                 /\ k < li
                 /\ ~LangIndexed(Langs[k])
                 /\ \A c \in DOMAIN calls : calls[c].call.index # index_name(MiraclIdx(Langs[k]))
        /\ \A k \in DOMAIN Langs :
             (k < li /\ ~LangSkipped(Langs[k])) => LangIndexed(Langs[k])
        /\ SavedCount = Cardinality({k \in DOMAIN Langs : k < li /\ ~LangSkipped(Langs[k])})
        /\ (SavedCount > 0 => Keys(artifacts) = ArtifactPaths)
        /\ (SavedCount = 0 => artifacts = <<>>)
        /\ (pc = "done" => li = Len(Langs) + 1)

\* C15: the first language was skipped and the second indexed and saved
C15_Witness ==
    /\ dataset = MIRACL
    /\ pc = "done"
    /\ LangSkipped(Langs[1])
    /\ LangIndexed(Langs[2])
    /\ SavedCount = 1

\* the report file written by save_results
ReportFile == Get(artifacts, <<"file_path", dataset, "result.md">>)

\* C16: the per-query list save_results computes and writes has exactly one
\* entry per key of run, each with the NDCG@10 of its query, in non-decreasing
\* order of NDCG@10, whatever the scores, ties included.
C16_PerQueryOrdering ==
    pc = "saved" =>
        /\ Len(ReportFile) = Len(run)
        /\ \A k \in Keys(run) :
             Cardinality({i \in DOMAIN ReportFile : ReportFile[i].query = k}) = 1
        /\ \A i \in DOMAIN ReportFile :
             /\ ReportFile[i].query \in Keys(run)
             /\ ReportFile[i].ndcg = e_res[1][ReportFile[i].query]
        /\ \A i, j \in DOMAIN ReportFile :
             i < j => ReportFile[i].ndcg <= ReportFile[j].ndcg

\* C16: two queries, the one inserted first scoring higher, were reordered
C16_Witness ==
    /\ pc = "saved"
    /\ Len(run) = 2
    /\ e_res[1][run[1][1]] > e_res[1][run[2][1]]
    /\ ReportFile[1].query = run[2][1]

\* the documents of a hit list whose score is among the n highest
TopScored(hits, n) ==
    {hits[i][1] : i \in {k \in DOMAIN hits :
        Cardinality({j \in DOMAIN hits : hits[j][2] > hits[k][2]}) < n}}

\* C17 (as claimed): for each query the report lists the (up to) 10 documents
\* of run[query] with the highest retrieval scores, and the value printed
\* next to each is the document's relevance grade in qrels.
C17_ReportTopHitsWithGrade ==
    pc = "saved" =>
        \A i \in DOMAIN ReportFile :
            LET hits == Get(run, ReportFile[i].query)
                qrel == Get(qrels, ReportFile[i].query)
                rows == ReportFile[i].hits
            IN  /\ Len(rows) = Min(ReportTop, Len(hits))
                /\ \A d \in TopScored(hits, ReportTop) :
                     \E k \in DOMAIN rows :
                         /\ rows[k].text = Get(texts, d)
                         /\ rows[k].qrel = Get(qrel, d)

Ids(ds) == {ds[i].id : i \in DOMAIN ds}
DispatchedIds == UNION {Ids(threads[i].es_docs) : i \in DOMAIN threads}

\* C18: in ms_marco_index, in every interleaving, the dispatched batches are
\* pairwise disjoint and, with the documents still accumulated, are exactly
\* the documents built (the batches alone once the last one is dispatched);
\* each batch is bulk-loaded at most once, by its own task; and the vector
\* fields appear only in the workers' copies, the orchestrator's docs, qrels
\* and texts staying as built.
C18_ExactlyOnceBatching ==
    (dataset = MS_MARCO /\ pc # "call") =>
        /\ \A i, j \in DOMAIN threads :
             i # j => Ids(threads[i].es_docs) \cap Ids(threads[j].es_docs) = {}
        /\ \A i \in DOMAIN threads :
             Cardinality(Ids(threads[i].es_docs)) = Len(threads[i].es_docs)
        /\ (pc = "ms_loop" =>
              /\ DispatchedIds \cap Ids(docs) = {}
              /\ DispatchedIds \cup Ids(docs) = 1..(nextId - 1))
        /\ (pc # "ms_loop" => DispatchedIds = 1..(nextId - 1))
        /\ Len(bulks) = Cardinality({i \in DOMAIN threads : threads[i].st = "done"})
        /\ \A b \in DOMAIN bulks :
             \E i \in DOMAIN threads :
                 threads[i].st = "done" /\ threads[i].es_docs = bulks[b].docs
        /\ \A a, b \in DOMAIN bulks :
             a # b => Ids(bulks[a].docs) \cap Ids(bulks[b].docs) = {}
        /\ \A i \in DOMAIN docs : docs[i].fields = <<>>
        /\ KeyList(texts) = [i \in 1..(nextId - 1) |-> i]
        /\ UNION {{qrels[q][2][j][1] : j \in DOMAIN qrels[q][2]} : q \in DOMAIN qrels}
           = 1..(nextId - 1)

\* C18: two non-empty batches in flight, the later one finished first
C18_Witness ==
    /\ dataset = MS_MARCO
    /\ Len(threads) >= 2
    /\ threads[1].es_docs # <<>> /\ threads[2].es_docs # <<>>
    /\ threads[1].st = "running"
    /\ threads[2].st = "done"

\* the bulk loads into an index, in order
BulksOf(idx) == SelectSeq(bulks, LAMBDA b : b.idx = idx)
RECURSIVE TotalDocs(_)
TotalDocs(bs) == IF bs = <<>> THEN 0 ELSE Len(Head(bs).docs) + TotalDocs(Tail(bs))

\* C19: every adapter flushes once more after its record loop whatever the
\* remainder: when the synchronous adapters return, the index has had at
\* least one embedded bulk load, all but the last of at least 32 documents,
\* together all the documents built; miracl_index, whose records are single
\* documents, has made floor(N/32) + 1 of them, the last one holding N mod 32
\* documents, none when N is a multiple of 32; ms_marco_index has dispatched
\* its batches in the same way once the loop is left.
C19_FinalFlushUnconditional ==
    /\ ((dataset \in {TRIVIA_QA, MIRACL} /\ pc = "retrieval") =>
          LET bs == BulksOf(index_name(CurIdx)) IN
          /\ Len(bs) >= 1
          /\ \A b \in DOMAIN bs : bs[b].embedded
          /\ \A b \in 1..(Len(bs) - 1) : Len(bs[b].docs) >= FlushThreshold
          /\ TotalDocs(bs) = Len(texts)
          /\ (Len(texts) = 0 => bs = <<[idx |-> index_name(CurIdx), docs |-> <<>>,
                                       ok |-> bs[1].ok, embedded |-> TRUE]>>)
          /\ (dataset = MIRACL =>
                /\ Len(bs) = (Len(texts) \div FlushThreshold) + 1
                /\ Len(bs[Len(bs)].docs) = Len(texts) % FlushThreshold))
    /\ ((dataset = MS_MARCO /\ pc \notin {"call", "ms_loop"}) =>
          /\ Len(threads) >= 1
          /\ \A i \in 1..(Len(threads) - 1) : Len(threads[i].es_docs) >= FlushThreshold
          /\ (Len(texts) = 0 => Len(threads) = 1 /\ threads[1].es_docs = <<>>)
          /\ DispatchedIds = 1..Len(texts))

\* C19: a miracl language of exactly 32 rows: a full flush, then an empty one
C19_Witness ==
    /\ dataset = MIRACL
    /\ pc = "retrieval"
    /\ Len(texts) = FlushThreshold
    /\ Len(BulksOf(index_name(CurIdx))) = 2
    /\ BulksOf(index_name(CurIdx))[2].docs = <<>>
    /\ BulksOf(index_name(CurIdx))[2].embedded

\* the document ids bulk-loaded for a language
LangDocIds(l) ==
    UNION {Ids(bulks[b].docs) : b \in {x \in DOMAIN bulks : bulks[x].idx = index_name(MiraclIdx(l))}}
QrelIds(q) == UNION {{q[i][2][j][1] : j \in DOMAIN q[i][2]} : i \in DOMAIN q}

\* C20: in a miracl run every save_results writes the same three paths, so
\* between languages and at the end the artifacts are exactly three files
\* holding the qrels and the run of the last language saved and a report on
\* its queries, which after the run is exactly the report of that language,
\* and nothing of an earlier language.
C20_MiraclArtifactsOverwritten ==
    (dataset = MIRACL /\ pc \in {"call", "done"} /\ SavedCount >= 1) =>
        /\ Len(artifacts) = 3
        /\ Keys(artifacts) = ArtifactPaths
        /\ Get(artifacts, <<"file_path", "miracl", ".qrels.json">>) = qrels
        /\ Get(artifacts, <<"file_path", "miracl", ".run.json">>) = run
        /\ {ReportFile[i].query : i \in DOMAIN ReportFile} = Keys(run)
        /\ (pc = "done" =>
              ReportFile = Report(qrels, run, texts,
                                  [k \in Keys(run) |-> ndcg10(GetDefault(qrels, k), Get(run, k))]))
        /\ QrelIds(Get(artifacts, <<"file_path", "miracl", ".qrels.json">>)) = Range(KeyList(texts))

\* C20: two languages were saved, each with a document; only the second's is
\* in the artifacts
C20_Witness ==
    /\ dataset = MIRACL
    /\ pc = "done"
    /\ SavedCount = 2
    /\ LangDocIds(Langs[1]) # {}
    /\ QrelIds(Get(artifacts, <<"file_path", "miracl", ".qrels.json">>)) # {}
    /\ LangDocIds(Langs[1])
       \cap QrelIds(Get(artifacts, <<"file_path", "miracl", ".qrels.json">>)) = {}

====
